---------------------------- MODULE Spec2Model ----------------------------
(***************************************************************************)
(* A model of the two CSV utility scripts of the repository:               *)
(*                                                                         *)
(*   match_urls.py  main(): reads match.csv with csv.DictReader, adds a    *)
(*                  youtube_url column to every row (from the video        *)
(*                  column, or from a YouTube search) and writes the rows  *)
(*                  with csv.DictWriter.                                   *)
(*   get_urls.py    read_urls() and download_videos().                     *)
(*                                                                         *)
(* A Python str is a sequence of one-character strings.  None is the       *)
(* one-element sequence PyNone, which is no str because "None" is no       *)
(* character of the alphabet.                                              *)
(***************************************************************************)
EXTENDS Naturals, Sequences, FiniteSets

VARIABLES
    first_line,   \* the header line of the CSV file read, or NoHeader, NoFile
    lines,        \* the data lines of the CSV file the reader has consumed
    pc,           \* position of the running function
    exc,          \* the exception that ended the run, if any
    stdout,       \* what has been printed to stdout
    stderr,       \* what has been printed to stderr
    fieldnames,   \* match_urls: fieldnames of the DictWriter (line 174)
    out_header,   \* match_urls: header lines written to output_csv
    out_rows,     \* match_urls: data lines written to output_csv
    row,          \* match_urls: the dict of the row being processed
    searches,     \* match_urls: the YouTube searches issued so far
    urls,         \* get_urls: the list read_urls builds, download_videos walks
    idx,          \* get_urls: download_videos' position in urls
    files,        \* get_urls: the files of output_dir
    expected_file,\* get_urls: download_videos' expected_file
    invoked       \* get_urls: the yt-dlp invocations so far

csv_vars == <<first_line, lines>>
run_vars == <<pc, exc, stdout, stderr>>
mu_vars == <<fieldnames, out_header, out_rows, row, searches>>
gu_vars == <<urls, idx, files, expected_file, invoked>>
vars == <<csv_vars, run_vars, mu_vars, gu_vars>>

-----------------------------------------------------------------------------
(* Bounds of the model.                                                    *)

MaxFields == 2    \* fields of a data line
MaxRows == 2      \* data lines of a file

(* Python values.                                                          *)

PyNone == <<"None">>
EmptyStr == <<>>
Values == { <<>>, <<" ">>, <<" ", "a", " ">> }

IsWhitespace(c) == c = " "

RECURSIVE LStrip(_)
LStrip(s) ==
    IF s # <<>> /\ IsWhitespace(Head(s)) THEN LStrip(Tail(s)) ELSE s

RECURSIVE RStrip(_)
RStrip(s) ==
    IF s # <<>> /\ IsWhitespace(s[Len(s)])
    THEN RStrip(SubSeq(s, 1, Len(s) - 1))
    ELSE s

\* str.strip()
Strip(s) == RStrip(LStrip(s))

\* bool(v) of a str or None
Truthy(v) == v # PyNone /\ v # EmptyStr

Range(s) == { s[i] : i \in 1..Len(s) }

SeqsUpTo(S, n) == UNION { [1..k -> S] : k \in 0..n }

Max(S) == CHOOSE m \in S : \A k \in S : k <= m

-----------------------------------------------------------------------------
(* The csv module: DictReader and DictWriter.                              *)

RestKey == "<restkey None>"
NoHeader == <<"<no header line>">>
NoFile == <<"<no file>">>

\* the header lines and the data lines of the input files considered; the
\* line <<>> is a blank line
Headers ==
    { <<"video">>, <<"tournament">>, <<"tournament", "video">>,
      <<"video", "tournament">>, <<"video", "youtube_url">> }
Records == SeqsUpTo(Values, MaxFields)

\* csv.DictReader skips the lines csv.reader returns as [] (blank lines)
DataRecords(records) == SelectSeq(records, LAMBDA r : r # <<>>)

\* DictReader.__next__: dict(zip(fieldnames, record)); the fields beyond the
\* header go under restkey (None), the columns beyond the record get restval
\* (None).  A column name that occurs twice keeps its last value.
DictReaderRow(header, rec) ==
    LET keys == Range(header) \cup
                (IF Len(rec) > Len(header) THEN {RestKey} ELSE {})
        last(k) == Max({ i \in 1..Len(header) : header[i] = k })
    IN  [ k \in keys |->
            IF k = RestKey THEN SubSeq(rec, Len(header) + 1, Len(rec))
            ELSE IF last(k) <= Len(rec) THEN rec[last(k)]
            ELSE PyNone ]

\* dict.get(key, default)
Get(d, key, default) == IF key \in DOMAIN d THEN d[key] ELSE default

\* d[key] = value
Put(d, key, value) ==
    [ k \in DOMAIN d \cup {key} |-> IF k = key THEN value ELSE d[k] ]

\* DictWriter._dict_to_list: the keys that are no fieldnames (extrasaction
\* is "raise")
WrongFields(d, names) == DOMAIN d \ Range(names)

\* the fields csv.writer writes for the dict: None is written as ""
DictToList(d, names) ==
    [ i \in 1..Len(names) |->
        LET v == Get(d, names[i], EmptyStr)
        IN  IF v = PyNone THEN EmptyStr ELSE v ]

-----------------------------------------------------------------------------
(* match_urls.py                                                           *)

youtube_base == << "https://www.youtube.com/watch?v=" >>

generate_youtube_url(video_id) == youtube_base \o video_id

RECURSIVE Join(_)
\* " ".join(parts)
Join(parts) ==
    IF parts = <<>> THEN <<>>
    ELSE IF Len(parts) = 1 THEN parts[1]
    ELSE parts[1] \o <<" ">> \o Join(Tail(parts))

build_search_query(r) ==
    LET parts == << Get(r, "tournament", EmptyStr),
                    Get(r, "round", EmptyStr),
                    Get(r, "year", EmptyStr),
                    Get(r, "month", EmptyStr),
                    Get(r, "day", EmptyStr) >>
    IN  Join(SelectSeq(parts, Truthy))

\* What a call of search_video_id can meet: no API key (RuntimeError), a
\* failing request (HttpError), or a response with its list of items.
Responses ==
    { [kind |-> "RuntimeError", items |-> <<>>],
      [kind |-> "HttpError", items |-> <<>>] } \cup
    { [kind |-> "ok", items |-> it] :
        it \in { <<>>, << <<"y">>, <<"x">> >> } }

\* search_video_id's return value on a response
search_video_id(resp) ==
    IF resp.items = <<>> THEN EmptyStr ELSE resp.items[1]

NoRow == [ k \in {} |-> EmptyStr ]

\* the variables of match_urls and of get_urls before either runs
MuIdle ==
    /\ fieldnames = <<>>
    /\ out_header = <<>>
    /\ out_rows = <<>>
    /\ row = NoRow
    /\ searches = <<>>

GuIdle ==
    /\ urls = <<>>
    /\ idx = 1
    /\ files = {}
    /\ expected_file = <<>>
    /\ invoked = <<>>

MuInit ==
    /\ first_line \in Headers \cup {NoHeader}
    /\ lines = <<>>
    /\ pc = "open"
    /\ exc = "none"
    /\ stdout = <<>>
    /\ stderr = <<>>
    /\ MuIdle
    /\ GuIdle

\* lines 169-177: open the files, build the reader and the writer, write
\* the header.  reader.fieldnames is None for a file without a first line.
Open ==
    /\ pc = "open"
    /\ IF first_line = NoHeader
       THEN /\ pc' = "crashed"
            /\ exc' = "TypeError"
            /\ UNCHANGED <<fieldnames, out_header>>
       ELSE /\ fieldnames' = first_line \o <<"youtube_url">>
            /\ out_header' = << fieldnames' >>
            /\ pc' = "loop"
            /\ UNCHANGED exc
    /\ UNCHANGED <<first_line, lines, out_rows, row, searches, stdout>>
    /\ UNCHANGED <<stderr, gu_vars>>

\* line 179: DictReader.__next__ passes over a blank line
SkipBlank ==
    /\ pc = "loop"
    /\ Len(lines) < MaxRows
    /\ lines' = Append(lines, <<>>)
    /\ UNCHANGED <<first_line, fieldnames, out_header, out_rows, row, searches,
                   stdout, pc, exc>>
    /\ UNCHANGED <<stderr, gu_vars>>

\* line 179, the reader is exhausted; line 199
EndOfFile ==
    /\ pc = "loop"
    /\ stdout' = Append(stdout, <<"written">>)
    /\ pc' = "done"
    /\ UNCHANGED <<first_line, lines, fieldnames, out_header, out_rows, row,
                   searches, exc>>
    /\ UNCHANGED <<stderr, gu_vars>>

\* line 179: the reader returns the dict of the next data line
ReadRow(rec) ==
    /\ pc = "loop"
    /\ Len(lines) < MaxRows
    /\ rec # <<>>
    /\ lines' = Append(lines, rec)

\* lines 195-196
SetUrl(r, video_id) ==
    Put(r, "youtube_url",
        IF Truthy(video_id) THEN generate_youtube_url(video_id) ELSE EmptyStr)

\* lines 179-181 on a row whose video value is None: None.strip()
RowVideoNone ==
    \E rec \in Records :
        LET r == DictReaderRow(first_line, rec)
        IN  /\ ReadRow(rec)
            /\ Get(r, "video", EmptyStr) = PyNone
            /\ row' = r
            /\ pc' = "crashed"
            /\ exc' = "AttributeError"
            /\ UNCHANGED <<first_line, fieldnames, out_header, out_rows,
                           searches, stdout>>
            /\ UNCHANGED <<stderr, gu_vars>>

\* RowWithVideo with the video ID taken from the column as it stands, the
\* strip() of line 181 forgotten
RowWithVideo_Unstripped ==
    \E rec \in Records :
        LET r == DictReaderRow(first_line, rec)
        IN  /\ ReadRow(rec)
            /\ Get(r, "video", EmptyStr) # PyNone
            /\ Truthy(Strip(Get(r, "video", EmptyStr)))
            /\ row' = SetUrl(r, Get(r, "video", EmptyStr))
            /\ pc' = "write"
            /\ UNCHANGED <<first_line, fieldnames, out_header, out_rows,
                           searches, stdout, exc>>
            /\ UNCHANGED <<stderr, gu_vars>>

\* lines 179-182, 195-196: the row has a video ID
RowWithVideo ==
    \E rec \in Records :
        LET r == DictReaderRow(first_line, rec)
        IN  /\ ReadRow(rec)
            /\ Get(r, "video", EmptyStr) # PyNone
            /\ LET video_id == Strip(Get(r, "video", EmptyStr))
               IN  /\ Truthy(video_id)
                   /\ row' = SetUrl(r, video_id)
            /\ pc' = "write"
            /\ UNCHANGED <<first_line, fieldnames, out_header, out_rows,
                           searches, stdout, exc>>
            /\ UNCHANGED <<stderr, gu_vars>>

\* lines 179-185, 192-196: no video ID and an empty query
RowNoQuery ==
    \E rec \in Records :
        LET r == DictReaderRow(first_line, rec)
        IN  /\ ReadRow(rec)
            /\ Get(r, "video", EmptyStr) # PyNone
            /\ ~Truthy(Strip(Get(r, "video", EmptyStr)))
            /\ ~Truthy(build_search_query(r))
            /\ row' = SetUrl(r, EmptyStr)
            /\ pc' = "write"
            /\ UNCHANGED <<first_line, fieldnames, out_header, out_rows,
                           searches, stdout, exc>>
            /\ UNCHANGED <<stderr, gu_vars>>

\* lines 179-191, 195-196: no video ID, the search is issued
RowSearch ==
    \E rec \in Records, resp \in Responses :
        LET r == DictReaderRow(first_line, rec)
            query == build_search_query(r)
        IN  /\ ReadRow(rec)
            /\ Get(r, "video", EmptyStr) # PyNone
            /\ ~Truthy(Strip(Get(r, "video", EmptyStr)))
            /\ Truthy(query)
            /\ searches' = Append(searches,
                   [line |-> Len(lines'), q |-> query, resp |-> resp])
            /\ IF resp.kind = "ok"
               THEN /\ row' = SetUrl(r, search_video_id(resp))
                    /\ UNCHANGED stdout
               ELSE /\ row' = SetUrl(r, EmptyStr)
                    /\ stdout' = Append(stdout, <<"failed">> \o query)
            /\ pc' = "write"
            /\ UNCHANGED <<first_line, fieldnames, out_header, out_rows, exc>>
            /\ UNCHANGED <<stderr, gu_vars>>

\* line 197
WriteRow ==
    /\ pc = "write"
    /\ IF WrongFields(row, fieldnames) # {}
       THEN /\ pc' = "crashed"
            /\ exc' = "ValueError"
            /\ UNCHANGED out_rows
       ELSE /\ out_rows' = Append(out_rows, DictToList(row, fieldnames))
            /\ pc' = "loop"
            /\ UNCHANGED exc
    /\ UNCHANGED <<first_line, lines, fieldnames, out_header, row, searches,
                   stdout>>
    /\ UNCHANGED <<stderr, gu_vars>>

MuNext ==
    \/ Open
    \/ SkipBlank
    \/ EndOfFile
    \/ RowVideoNone
    \/ RowWithVideo
    \/ RowNoQuery
    \/ RowSearch
    \/ WriteRow

Spec == MuInit /\ [][MuNext]_vars

-----------------------------------------------------------------------------
(* get_urls.py: read_urls                                                  *)

UrlHeaders == { <<"url">>, <<"id", "url">>, <<"url", "id">>, <<"id">> }
UrlRecords == SeqsUpTo(Values \cup { <<"b">> }, MaxFields)

RuInit ==
    /\ first_line \in UrlHeaders \cup {NoHeader, NoFile}
    /\ lines = <<>>
    /\ pc = "open"
    /\ exc = "none"
    /\ stdout = <<>>
    /\ stderr = <<>>
    /\ MuIdle
    /\ GuIdle

\* lines 26-36: the file check, the reader, the check of the url column
RuOpen ==
    /\ pc = "open"
    /\ IF first_line = NoFile
       THEN /\ stderr' = Append(stderr, <<"CSV file not found">>)
            /\ pc' = "exited"
            /\ exc' = "SystemExit"
       ELSE IF first_line = NoHeader
       THEN \* 'url' not in None
            /\ pc' = "crashed"
            /\ exc' = "TypeError"
            /\ UNCHANGED stderr
       ELSE IF "url" \notin Range(first_line)
       THEN /\ stderr' = Append(stderr, <<"'url' column not found">>)
            /\ pc' = "exited"
            /\ exc' = "SystemExit"
       ELSE /\ pc' = "loop"
            /\ UNCHANGED <<exc, stderr>>
    /\ UNCHANGED <<csv_vars, stdout, mu_vars, gu_vars>>

\* line 38: DictReader.__next__ passes over a blank line
RuSkipBlank ==
    /\ pc = "loop"
    /\ Len(lines) < MaxRows
    /\ lines' = Append(lines, <<>>)
    /\ UNCHANGED <<first_line, run_vars, mu_vars, gu_vars>>

\* lines 38-39 on a row whose url value is None: None.strip()
RuRowUrlNone ==
    \E rec \in UrlRecords :
        /\ ReadRow(rec)
        /\ Get(DictReaderRow(first_line, rec), "url", EmptyStr) = PyNone
        /\ pc' = "crashed"
        /\ exc' = "AttributeError"
        /\ UNCHANGED <<first_line, stdout, stderr, mu_vars, gu_vars>>

\* lines 38-41
RuRow ==
    \E rec \in UrlRecords :
        LET value == Get(DictReaderRow(first_line, rec), "url", EmptyStr)
            url == Strip(value)
        IN  /\ ReadRow(rec)
            /\ value # PyNone
            /\ urls' = IF Truthy(url) THEN Append(urls, url) ELSE urls
            /\ UNCHANGED <<first_line, run_vars, mu_vars, idx, files,
                           expected_file, invoked>>

\* line 38, the reader is exhausted; line 43
RuReturn ==
    /\ pc = "loop"
    /\ pc' = "returned"
    /\ UNCHANGED <<csv_vars, exc, stdout, stderr, mu_vars, gu_vars>>

RuNext ==
    \/ RuOpen
    \/ RuSkipBlank
    \/ RuRowUrlNone
    \/ RuRow
    \/ RuReturn

SpecRead == RuInit /\ [][RuNext]_vars

-----------------------------------------------------------------------------
(* get_urls.py: download_videos and get_expected_filename                  *)

Urls == { <<"a">>, <<"b">> }

\* the file names yt-dlp --get-filename may print (the title of the video)
Titles == { <<"title1.mp4">>, <<"title2.mp4">> }

\* line 79: download_{hash(url)}.mp4
FallbackName(url) == <<"download_hash_">> \o url \o <<".mp4">>

FileNames == Titles \cup { FallbackName(u) : u \in Urls }

DlInit ==
    /\ urls \in SeqsUpTo(Urls, MaxRows)
    /\ files \in SUBSET FileNames
    /\ idx = 1
    /\ expected_file = <<>>
    /\ invoked = <<>>
    /\ pc = "lookup"
    /\ exc = "none"
    /\ stdout = <<>>
    /\ stderr = <<>>
    /\ first_line = NoFile
    /\ lines = <<>>
    /\ MuIdle

Invocation(cmd, result) ==
    [cmd |-> cmd, i |-> idx, url |-> urls[idx], result |-> result]

\* lines 96-98: skip the URL if its file is there, else go on to download
AfterLookup(name) ==
    /\ expected_file' = name
    /\ IF name \in files
       THEN /\ stdout' = Append(stdout, <<"Skipping", idx>>)
            /\ idx' = idx + 1
            /\ pc' = "lookup"
       ELSE /\ idx' = idx
            /\ pc' = "download"
            /\ UNCHANGED stdout

\* lines 92-98, 65-75: yt-dlp --get-filename prints a name
LookupOk ==
    /\ pc = "lookup"
    /\ idx <= Len(urls)
    /\ \E name \in Titles : AfterLookup(name)
    /\ invoked' = Append(invoked, Invocation("get-filename", "ok"))
    /\ UNCHANGED <<csv_vars, exc, stderr, mu_vars, urls, files>>

\* lines 92-98, 76-79: yt-dlp --get-filename exits with an error status
LookupFailed ==
    /\ pc = "lookup"
    /\ idx <= Len(urls)
    /\ stderr' = Append(stderr, <<"Error determining filename", idx>>)
    /\ AfterLookup(FallbackName(urls[idx]))
    /\ invoked' =
         Append(invoked, Invocation("get-filename", "CalledProcessError"))
    /\ UNCHANGED <<csv_vars, exc, mu_vars, urls, files>>

\* line 66: yt-dlp cannot be started; the OSError is not caught
LookupNotStarted ==
    /\ pc = "lookup"
    /\ idx <= Len(urls)
    /\ invoked' = Append(invoked, Invocation("get-filename", "OSError"))
    /\ pc' = "crashed"
    /\ exc' = "OSError"
    /\ UNCHANGED <<csv_vars, stdout, stderr, mu_vars, urls, idx, files,
                   expected_file>>

\* lines 102-118: the download succeeds and leaves a file
DownloadOk ==
    /\ pc = "download"
    /\ stdout' = Append(stdout, <<"Downloading", idx>>)
    /\ \E name \in Titles : files' = files \cup {name}
    /\ invoked' = Append(invoked, Invocation("download", "ok"))
    /\ idx' = idx + 1
    /\ pc' = "lookup"
    /\ UNCHANGED <<csv_vars, exc, stderr, mu_vars, urls, expected_file>>

\* DownloadFailed with the except clause of line 119 missing: the
\* CalledProcessError leaves download_videos
DownloadFailed_Uncaught ==
    /\ pc = "download"
    /\ stdout' = Append(stdout, <<"Downloading", idx>>)
    /\ invoked' = Append(invoked, Invocation("download", "CalledProcessError"))
    /\ pc' = "crashed"
    /\ exc' = "CalledProcessError"
    /\ UNCHANGED <<csv_vars, stderr, mu_vars, urls, idx, files,
                   expected_file>>

\* lines 102-120: the download exits with an error status
DownloadFailed ==
    /\ pc = "download"
    /\ invoked' = Append(invoked, Invocation("download", "CalledProcessError"))
    /\ stdout' = Append(stdout, <<"Downloading", idx>>)
    /\ stderr' = Append(stderr, <<"Error downloading", idx>>)
    /\ idx' = idx + 1
    /\ pc' = "lookup"
    /\ UNCHANGED <<csv_vars, exc, mu_vars, urls, files, expected_file>>

\* line 118: yt-dlp cannot be started; the OSError is not caught
DownloadNotStarted ==
    /\ pc = "download"
    /\ stdout' = Append(stdout, <<"Downloading", idx>>)
    /\ invoked' = Append(invoked, Invocation("download", "OSError"))
    /\ pc' = "crashed"
    /\ exc' = "OSError"
    /\ UNCHANGED <<csv_vars, stderr, mu_vars, urls, idx, files,
                   expected_file>>

\* line 92, the list is exhausted: download_videos returns
LoopEnd ==
    /\ pc = "lookup"
    /\ idx > Len(urls)
    /\ pc' = "done"
    /\ UNCHANGED <<csv_vars, exc, stdout, stderr, mu_vars, gu_vars>>

DlNext ==
    \/ LookupOk
    \/ LookupFailed
    \/ LookupNotStarted
    \/ DownloadOk
    \/ DownloadFailed
    \/ DownloadNotStarted
    \/ LoopEnd

\* The loop is sequential code: while download_videos has a next step it
\* takes one, every yt-dlp invocation returning.
SpecDownload == DlInit /\ [][DlNext]_vars /\ WF_vars(DlNext)

-----------------------------------------------------------------------------
(* Properties of match_urls.main                                           *)

Terminated == pc \in {"done", "crashed"}

\* the number of data lines among the first i lines consumed
DataCount(i) == Len(DataRecords(SubSeq(lines, 1, i)))

\* the dict the reader returned for line i
RowOfLine(i) == DictReaderRow(first_line, lines[i])

\* line i has been through line 197
Written(i) == i < Len(lines) \/ pc \in {"loop", "done"}

\* the youtube_url main has given the row of line i: the last field of its
\* output line, or the entry of the dict not yet written
UrlOfLine(i) ==
    IF DataCount(i) <= Len(out_rows)
    THEN out_rows[DataCount(i)][Len(fieldnames)]
    ELSE row["youtube_url"]

HasUrl(i) == DataCount(i) <= Len(out_rows) \/ "youtube_url" \in DOMAIN row

SearchesOfLine(i) ==
    { k \in 1..Len(searches) : searches[k].line = i }

\* C1: when main has ended, output_csv holds exactly one row for every
\* data row of input_csv, in the input order, every original column value
\* unchanged (an absent value written as the empty string) and one column
\* added.
C1_OneOutputRowPerInputRow ==
    Terminated =>
        LET recs == DataRecords(lines)
        IN  /\ Len(out_rows) = Len(recs)
            /\ \A i \in 1..Len(recs) :
                 /\ i <= Len(out_rows)
                 /\ Len(out_rows[i]) = Len(first_line) + 1
                 /\ \A j \in 1..Len(first_line) :
                      out_rows[i][j] =
                        (IF j <= Len(recs[i]) THEN recs[i][j] ELSE EmptyStr)

\* the video value of line i is a str that is non-empty when stripped
VideoPresent(i) ==
    LET v == Get(RowOfLine(i), "video", EmptyStr)
    IN  v # PyNone /\ Strip(v) # EmptyStr

\* C2: for every row whose video column is non-empty after stripping
\* whitespace, no YouTube search is issued for the row and its youtube_url
\* is youtube_base followed by the stripped video ID.
C2_ExistingVideoIdUsed ==
    \A i \in 1..Len(lines) :
        (lines[i] # <<>> /\ VideoPresent(i)) =>
            /\ SearchesOfLine(i) = {}
            /\ HasUrl(i)
            /\ UrlOfLine(i) =
                 youtube_base \o Strip(Get(RowOfLine(i), "video", EmptyStr))

\* two rows are written, the first after a search, the second with the
\* video ID of its padded video column
C2_Witness ==
    /\ pc = "loop"
    /\ Len(out_rows) = 2
    /\ Len(searches) = 1
    /\ VideoPresent(2)
    /\ lines[2][Len(lines[2])] = <<" ", "a", " ">>
    /\ out_rows[2][Len(fieldnames)] = youtube_base \o <<"a">>

\* C3: for every row whose video column is empty or missing, a YouTube
\* search is attempted with the query built from the row's metadata, and a
\* first search result is used as the row's video ID.
C3_SearchWhenNoVideo ==
    \A i \in 1..Len(lines) :
        (lines[i] # <<>> /\ ~VideoPresent(i)) =>
            /\ SearchesOfLine(i) # {}
            /\ \A k \in SearchesOfLine(i) :
                 /\ searches[k].q = build_search_query(RowOfLine(i))
                 /\ (searches[k].resp.kind = "ok"
                       /\ searches[k].resp.items # <<>>) =>
                      /\ HasUrl(i)
                      /\ UrlOfLine(i) =
                           youtube_base \o searches[k].resp.items[1]

\* C4: when the search for a row raises, the error is logged, the row is
\* still written with an empty youtube_url, and the run goes on: it is not
\* ended by an exception while that row is being processed.
C4_SearchFailureKeepsRow ==
    \A k \in 1..Len(searches) :
        searches[k].resp.kind # "ok" =>
            LET i == searches[k].line
            IN  /\ \E m \in 1..Len(stdout) :
                     stdout[m] = <<"failed">> \o searches[k].q
                /\ (i = Len(lines) => pc # "crashed")
                /\ Written(i) =>
                     /\ DataCount(i) <= Len(out_rows)
                     /\ UrlOfLine(i) = EmptyStr

-----------------------------------------------------------------------------
(* Properties of get_urls.read_urls                                        *)

RECURSIVE NonEmptyUrls(_)
\* the url values of the data lines that are non-empty when stripped,
\* stripped, in line order; a line without a url value gives nothing
NonEmptyUrls(ls) ==
    IF ls = <<>> THEN <<>>
    ELSE LET value == IF Head(ls) = <<>> THEN EmptyStr
                      ELSE Get(DictReaderRow(first_line, Head(ls)),
                               "url", EmptyStr)
             url == IF value = PyNone THEN EmptyStr ELSE Strip(value)
         IN  (IF url # EmptyStr THEN <<url>> ELSE <<>>)
               \o NonEmptyUrls(Tail(ls))

\* C5: on a CSV file with a url column read_urls returns the stripped
\* non-empty url values of the rows, in row order, duplicates kept.
C5_ReadUrlsReturnsNonEmptyUrls ==
    pc \in {"returned", "crashed"} /\ first_line # NoHeader =>
        /\ pc = "returned"
        /\ urls = NonEmptyUrls(lines)

-----------------------------------------------------------------------------
(* Properties of get_urls.download_videos                                  *)

\* yt-dlp exited with an error status on URL number i
FailedAt(i) ==
    \E k \in 1..Len(invoked) :
        invoked[k].i = i /\ invoked[k].result = "CalledProcessError"

\* download_videos has come to URL number j (line 94)
Considered(j) ==
    \E k \in 1..Len(invoked) :
        invoked[k].i = j /\ invoked[k].cmd = "get-filename"

\* C6: a yt-dlp invocation that exits with an error status is logged and
\* does not stop the loop: the step that meets it raises nothing, and from
\* then on every later URL is considered and the run ends after the last
\* URL, unless yt-dlp cannot be started at all.
C6_FailureDoesNotStopLoop ==
    /\ [][ (/\ Len(invoked') = Len(invoked) + 1
            /\ invoked'[Len(invoked')].result = "CalledProcessError")
           => /\ Len(stderr') = Len(stderr) + 1
              /\ stderr'[Len(stderr')][2] = idx
              /\ exc' = "none"
              /\ pc' \in {"lookup", "download"} ]_vars
    /\ \A i \in 1..(MaxRows + 1) :
         FailedAt(i) ~>
            \/ /\ pc = "done"
               /\ \A j \in i..Len(urls) : Considered(j)
            \/ exc = "OSError"

\* both invocations failed on the first of two URLs, the second URL was
\* considered and the run has ended
C6_Witness ==
    /\ pc = "done"
    /\ Len(urls) = 2
    /\ Len(stderr) >= 2
    /\ stderr[1] = <<"Error determining filename", 1>>
    /\ stderr[2] = <<"Error downloading", 1>>
    /\ Considered(2)

=============================================================================
